---- MODULE Spec2Model ----
(***************************************************************************)
(* Model of the rule engine of src/Mark1/app.py: create_rule (tokenizer    *)
(* and stack-based tree builder), combine_rules (left fold of compiled     *)
(* rules) and evaluate_rule (recursive evaluator).                         *)
(*                                                                         *)
(* A Python str is a sequence of one-character strings.  An exception is   *)
(* an outcome record with ok = FALSE and the kind of the error.            *)
(***************************************************************************)
EXTENDS Integers, Sequences, FiniteSets, TLC

(***************************************************************************)
(* Bounds of the explored inputs.                                          *)
(***************************************************************************)
\* longest chain of comparisons in one rule text
MaxChain == 3
\* longest sequence of rules handed to combine_rules
MaxRules == 3

(***************************************************************************)
(* Characters.  SUP2 is U+00B2: str.isdigit() holds for it, int() rejects  *)
(* it.                                                                     *)
(***************************************************************************)
SUP2 == "sup2"

Ord ==
    [c \in {" ", "!", "1", "2", "3", "<", "=", ">", "A", "D", "N", "O", "R",
            "X", "a", "d", "n", "o", "r", "x", "y", SUP2} |->
        CASE c = " " -> 32 [] c = "!" -> 33 [] c = "1" -> 49 [] c = "2" -> 50
          [] c = "3" -> 51 [] c = "<" -> 60 [] c = "=" -> 61 [] c = ">" -> 62
          [] c = "A" -> 65 [] c = "D" -> 68 [] c = "N" -> 78 [] c = "O" -> 79
          [] c = "R" -> 82 [] c = "X" -> 88 [] c = "a" -> 97 [] c = "d" -> 100
          [] c = "n" -> 110 [] c = "o" -> 111 [] c = "r" -> 114
          [] c = "x" -> 120 [] c = "y" -> 121 [] c = SUP2 -> 178]

IsSpace(c) == c = " "

IsAsciiDigit(c) == c \in {"1", "2", "3"}

\* what the regex class \w matches (and so what \b separates)
IsWordChar(c) == ~ (c \in {" ", "!", "<", "=", ">"})

LowerChar(c) ==
    CASE c = "A" -> "a" [] c = "D" -> "d" [] c = "N" -> "n" [] c = "O" -> "o"
      [] c = "R" -> "r" [] c = "X" -> "x" [] OTHER -> c

\* str.lower()
Lower(s) == [i \in 1..Len(s) |-> LowerChar(s[i])]

RECURSIVE LStrip(_)
LStrip(s) == IF s # <<>> /\ IsSpace(Head(s)) THEN LStrip(Tail(s)) ELSE s

RECURSIVE RStrip(_)
RStrip(s) ==
    IF s # <<>> /\ IsSpace(s[Len(s)]) THEN RStrip(SubSeq(s, 1, Len(s) - 1))
    ELSE s

\* str.strip()
Strip(s) == RStrip(LStrip(s))

\* str.split() with no argument: the maximal runs of non-whitespace
RECURSIVE SplitWs(_, _)
SplitWs(s, word) ==
    IF s = <<>> THEN (IF word = <<>> THEN <<>> ELSE <<word>>)
    ELSE IF IsSpace(Head(s))
         THEN (IF word = <<>> THEN <<>> ELSE <<word>>) \o SplitWs(Tail(s), <<>>)
         ELSE SplitWs(Tail(s), Append(word, Head(s)))

\* str.isdigit(): non-empty and every character is a digit character
IsDigit(s) == s # <<>> /\ \A i \in 1..Len(s) : IsAsciiDigit(s[i]) \/ s[i] = SUP2

\* whether int() accepts a text for which isdigit() holds
IntAccepts(s) == \A i \in 1..Len(s) : IsAsciiDigit(s[i])

DigitVal(c) == CASE c = "1" -> 1 [] c = "2" -> 2 [] c = "3" -> 3 [] OTHER -> 0

\* int() of a text of decimal digits
RECURSIVE ToInt(_)
ToInt(s) ==
    IF s = <<>> THEN 0
    ELSE 10 * ToInt(SubSeq(s, 1, Len(s) - 1)) + DigitVal(s[Len(s)])

\* s < t for Python strings: lexicographic on code points
RECURSIVE StrLess(_, _)
StrLess(s, t) ==
    IF t = <<>> THEN FALSE
    ELSE IF s = <<>> THEN TRUE
    ELSE IF Ord[Head(s)] # Ord[Head(t)] THEN Ord[Head(s)] < Ord[Head(t)]
    ELSE StrLess(Tail(s), Tail(t))

\* whether the text w stands in s at position i
StartsAt(s, i, w) == i + Len(w) - 1 <= Len(s) /\ SubSeq(s, i, i + Len(w) - 1) = w

(***************************************************************************)
(* The AST.  A Node is a record keyed by its operator: a comparison leaf   *)
(* holds value (left and right are None in the source), a logical node     *)
(* holds left and right (value is None in the source).                     *)
(***************************************************************************)
Leaf(text) == [operator |-> "COMPARE", value |-> text]

Node(op, l, r) == [operator |-> op, left |-> l, right |-> r]

None == [operator |-> "None"]

\* outcomes of a call: a returned value, or a raised exception
Return(v) == [ok |-> TRUE, value |-> v, err |-> "", detail |-> <<>>]

Raise(kind, what) == [ok |-> FALSE, value |-> None, err |-> kind, detail |-> what]

(***************************************************************************)
(* create_rule                                                             *)
(***************************************************************************)
AND == <<"A", "N", "D">>
OR == <<"O", "R">>

\* the length of the match of \bAND\b|\bOR\b at position i of s, 0 if none
LogicalMatchLen(s, i) ==
    LET bounded(w) ==
            /\ StartsAt(s, i, w)
            /\ (i = 1 \/ ~ IsWordChar(s[i - 1]))
            /\ (i + Len(w) > Len(s) \/ ~ IsWordChar(s[i + Len(w)]))
    IN  IF bounded(AND) THEN Len(AND) ELSE IF bounded(OR) THEN Len(OR) ELSE 0

\* the comparison operators, in the order the alternation tries them
ComparisonOps ==
    << <<"=", "=">>, <<"!", "=">>, <<">", "=">>, <<"<", "=">>, <<">">>, <<"<">> >>

\* the length of the match of ==|!=|>=|<=|>|< at position i of s, 0 if none
ComparisonMatchLen(s, i) ==
    LET hits == {k \in 1..Len(ComparisonOps) : StartsAt(s, i, ComparisonOps[k])}
    IN  IF hits = {} THEN 0
        ELSE Len(ComparisonOps[CHOOSE k \in hits : \A j \in hits : k <= j])

\* the length of the match of a pattern at position i of s, 0 if none
MatchLen(pattern, s, i) ==
    IF pattern = "logical" THEN LogicalMatchLen(s, i) ELSE ComparisonMatchLen(s, i)

\* re.split with one capturing group: the texts between the matches and the
\* matches themselves, in order; start is where the pending text begins
RECURSIVE ReSplit(_, _, _, _)
ReSplit(pattern, s, i, start) ==
    IF i > Len(s) THEN << SubSeq(s, start, Len(s)) >>
    ELSE LET m == MatchLen(pattern, s, i)
         IN  IF m > 0
             THEN << SubSeq(s, start, i - 1), SubSeq(s, i, i + m - 1) >>
                      \o ReSplit(pattern, s, i + m, i + m)
             ELSE ReSplit(pattern, s, i + 1, start)

\* [token.strip() for token in tokens if token.strip()]
StripNonEmpty(ts) ==
    LET keep == SelectSeq(ts, LAMBDA t : Strip(t) # <<>>)
    IN  [k \in 1..Len(keep) |-> Strip(keep[k])]

Tokenize(rule_string) == StripNonEmpty(ReSplit("logical", rule_string, 1, 1))

SplitComparison(token) == ReSplit("comparison", token, 1, 1)

LogicalTag(token) == IF token = AND THEN "AND" ELSE "OR"

CompareNode(attribute, operator, value) ==
    Leaf(Lower(attribute) \o <<" ">> \o operator \o <<" ">> \o value)

\* the state of the loop over the tokens
LoopState(stack, current_comparison, raised) ==
    [stack |-> stack, current_comparison |-> current_comparison, raised |-> raised]

NotRaised == Return(None)

\* LogicalStep without the raise on a short stack: the operator is dropped
LogicalStepSkipping(st, token) ==
    LET n == Len(st.stack)
    IN  IF n < 2 THEN LoopState(st.stack, <<>>, NotRaised)
        ELSE LoopState(
                 Append(SubSeq(st.stack, 1, n - 2),
                        Node(LogicalTag(token), st.stack[n - 1], st.stack[n])),
                 <<>>, NotRaised)

\* the loop body for a token that is AND or OR
LogicalStep(st, token) ==
    LET cc == st.current_comparison
        pending ==
            IF Len(cc) = 3 THEN Append(st.stack, CompareNode(cc[1], cc[2], cc[3]))
            ELSE st.stack
        n == Len(pending)
    IN  IF Len(cc) # 3 /\ Len(cc) > 0
        THEN LoopState(st.stack, cc, Raise("IncompleteComparison", token))
        ELSE IF n < 2
        THEN LoopState(pending, <<>>, Raise("InsufficientOperands", token))
        ELSE LoopState(
                 Append(SubSeq(pending, 1, n - 2),
                        Node(LogicalTag(token), pending[n - 1], pending[n])),
                 <<>>, NotRaised)

\* ComparisonStep that rejects only fewer than three parts
ComparisonStepLenient(st, token) ==
    LET comparison_parts == SplitComparison(token)
    IN  IF Len(comparison_parts) < 3
        THEN LoopState(st.stack, st.current_comparison,
                       Raise("MalformedComparison", token))
        ELSE LoopState(
                 Append(st.stack,
                        CompareNode(Strip(comparison_parts[1]),
                                    Strip(comparison_parts[2]),
                                    Strip(comparison_parts[3]))),
                 <<>>, NotRaised)

\* the loop body for any other token
ComparisonStep(st, token) ==
    LET comparison_parts == SplitComparison(token)
    IN  IF Len(comparison_parts) # 3
        THEN LoopState(st.stack, st.current_comparison,
                       Raise("MalformedComparison", token))
        ELSE LoopState(
                 Append(st.stack,
                        CompareNode(Strip(comparison_parts[1]),
                                    Strip(comparison_parts[2]),
                                    Strip(comparison_parts[3]))),
                 <<>>, NotRaised)

TokenStep(st, token) ==
    IF token \in {AND, OR} THEN LogicalStep(st, token) ELSE ComparisonStep(st, token)

\* the final validation of the stack
FinalStack(stack) ==
    IF Len(stack) = 1 THEN Return(stack[1])
    ELSE IF Len(stack) = 0 THEN Raise("NoExpression", <<>>)
    ELSE Raise("UnreducedStack", <<>>)

RECURSIVE RunLoop(_, _)
RunLoop(st, tokens) ==
    IF tokens = <<>> \/ ~ st.raised.ok THEN st
    ELSE RunLoop(TokenStep(st, Head(tokens)), Tail(tokens))

\* create_rule as a function of its argument
create_rule(rule_string) ==
    IF Strip(rule_string) = <<>> THEN Raise("EmptyRule", <<>>)
    ELSE LET end == RunLoop(LoopState(<<>>, <<>>, NotRaised),
                            Tokenize(Strip(rule_string)))
         IN  IF end.raised.ok THEN FinalStack(end.stack) ELSE end.raised

(***************************************************************************)
(* combine_rules                                                           *)
(***************************************************************************)
\* FoldNodes with the children of each new node swapped
RECURSIVE FoldNodesSwapped(_, _, _)
FoldNodesSwapped(combined_ast, rest, operator) ==
    IF rest = <<>> THEN combined_ast
    ELSE FoldNodesSwapped(Node(operator, Head(rest), combined_ast), Tail(rest), operator)

\* the loop that folds the compiled rules, combined_ast being the tree so far
RECURSIVE FoldNodes(_, _, _)
FoldNodes(combined_ast, rest, operator) ==
    IF rest = <<>> THEN combined_ast
    ELSE FoldNodes(Node(operator, combined_ast, Head(rest)), Tail(rest), operator)

\* combine_rules once every rule is compiled
CombineNodes(ast_nodes, operator) ==
    IF Len(ast_nodes) = 1 THEN Return(ast_nodes[1])
    ELSE IF ast_nodes = <<>> THEN Raise("IndexError", <<>>)
    ELSE Return(FoldNodes(Head(ast_nodes), Tail(ast_nodes), operator))

(***************************************************************************)
(* evaluate_rule                                                           *)
(***************************************************************************)
IntValue(n) == [t |-> "int", i |-> n, s |-> <<>>]

StrValue(text) == [t |-> "str", i |-> 0, s |-> text]

\* an evaluation's outcome, with the leaves it evaluated, in order
Evaluated(outcome, visited) ==
    [ok |-> outcome.ok, value |-> outcome.value, err |-> outcome.err,
     detail |-> outcome.detail, visited |-> visited]

\* int(value) if value.isdigit() else str(value)
Coerce(value) ==
    IF IsDigit(value)
    THEN (IF IntAccepts(value) THEN Return(IntValue(ToInt(value)))
          ELSE Raise("InvalidComparisonValue", value))
    ELSE Return(StrValue(value))

\* x < y for two values of the record's types
ValueLess(x, y) == IF x.t = "int" THEN x.i < y.i ELSE StrLess(x.s, y.s)

\* the six comparisons of a record value x with a literal y
Compare(operator, x, y) ==
    IF operator = <<"=", "=">> THEN Return(x = y)
    ELSE IF operator = <<"!", "=">> THEN Return(x # y)
    ELSE IF ~ (operator \in {<<">">>, <<"<">>, <<">", "=">>, <<"<", "=">>})
    THEN Raise("UnsupportedOperator", operator)
    ELSE IF x.t # y.t THEN Raise("TypeError", operator)
    ELSE IF operator = <<">">> THEN Return(ValueLess(y, x))
    ELSE IF operator = <<"<">> THEN Return(ValueLess(x, y))
    ELSE IF operator = <<">", "=">> THEN Return(~ ValueLess(x, y))
    ELSE Return(~ ValueLess(y, x))

\* the COMPARE branch
EvaluateCompare(ast, data) ==
    LET fields == SplitWs(ast.value, <<>>)
    IN  IF Len(fields) # 3 THEN Raise("UnpackError", ast.value)
        ELSE LET attribute == Lower(fields[1])
                 value == Coerce(fields[3])
             IN  IF ~ (attribute \in DOMAIN data)
                 THEN Raise("MissingAttribute", attribute)
                 ELSE IF ~ value.ok THEN value
                 ELSE Compare(fields[2], data[attribute], value.value)

\* evaluate_rule that evaluates both children before it combines them
RECURSIVE evaluate_rule_eager(_, _)
evaluate_rule_eager(ast, data) ==
    IF ast = None THEN Evaluated(Return(FALSE), <<>>)
    ELSE IF ast.operator = "COMPARE"
    THEN Evaluated(EvaluateCompare(ast, data), << ast.value >>)
    ELSE IF ast.operator \in {"AND", "OR"}
    THEN LET l == evaluate_rule_eager(ast.left, data)
             r == evaluate_rule_eager(ast.right, data)
             both == l.visited \o r.visited
         IN  IF ~ l.ok THEN Evaluated(l, both)
             ELSE IF ~ r.ok THEN Evaluated(r, both)
             ELSE Evaluated(Return(IF ast.operator = "AND" THEN l.value /\ r.value
                                   ELSE l.value \/ r.value), both)
    ELSE Evaluated(Raise("UnsupportedLogicalOperator", <<>>), <<>>)

RECURSIVE evaluate_rule(_, _)
evaluate_rule(ast, data) ==
    IF ast = None THEN Evaluated(Return(FALSE), <<>>)
    ELSE IF ast.operator = "COMPARE"
    THEN Evaluated(EvaluateCompare(ast, data), << ast.value >>)
    ELSE IF ast.operator \in {"AND", "OR"}
    THEN LET l == evaluate_rule(ast.left, data)
             stop == IF ast.operator = "AND" THEN FALSE ELSE TRUE
         IN  IF ~ l.ok \/ l.value = stop THEN l
             ELSE LET r == evaluate_rule(ast.right, data)
                  IN  Evaluated(r, l.visited \o r.visited)
    ELSE Evaluated(Raise("UnsupportedLogicalOperator", <<>>), <<>>)

(***************************************************************************)
(* The explored inputs.                                                    *)
(***************************************************************************)
SP == <<" ">>

AttrTexts == { <<>>, <<"a">>, <<"A">>, <<"d">>, <<"a", " ", "d">> }

OpTexts ==
    { <<"=", "=">>, <<"!", "=">>, <<">">>, <<"<">>, <<">", "=">>, <<"<", "=">>,
      <<"=", ">">>, <<">", ">">>, <<"=">> }

LitTexts ==
    { <<>>, <<"1">>, <<"2">>, <<"1", "3">>, <<"x">>, <<"X">>, <<"x", " ", "y">>,
      <<SUP2>> }

\* one comparison-like fragment, spaced
Fragment(a, o, l) == a \o SP \o o \o SP \o l

SingleTexts == { Fragment(a, o, l) : a \in AttrTexts, o \in OpTexts, l \in LitTexts }

\* well-formed comparisons, the links of the chains
ChainComparisons ==
    { Fragment(<<"a">>, <<">">>, <<"1">>),
      Fragment(<<"a">>, <<"<">>, <<"2">>),
      Fragment(<<"d">>, <<"=", "=">>, <<"x">>) }

Joiners == { SP \o AND \o SP, SP \o OR \o SP, SP }

\* c1 J1 c2 ... cn for n comparisons
RECURSIVE Chains(_)
Chains(n) ==
    IF n = 1 THEN ChainComparisons
    ELSE { t \o j \o c : t \in Chains(n - 1), j \in Joiners, c \in ChainComparisons }

ChainTexts == UNION { Chains(n) : n \in 2..MaxChain }

OddTexts ==
    { <<>>, SP, AND, OR \o SP \o Fragment(<<"a">>, <<">">>, <<"1">>),
      Fragment(<<"a">>, <<">">>, <<"1">>) \o SP \o AND,
      Fragment(<<"a">>, <<">">>, <<"1">>) \o SP \o AND \o SP \o OR \o SP
          \o Fragment(<<"d">>, <<"=", "=">>, <<"x">>),
      Fragment(<<"a">>, <<">">>, <<"1">>) \o AND \o SP
          \o Fragment(<<"d">>, <<"=", "=">>, <<"x">>),
      Fragment(<<"a">>, <<">">>, <<"1">>) \o SP \o <<"a", "n", "d">> \o SP
          \o Fragment(<<"d">>, <<"=", "=">>, <<"x">>),
      Fragment(<<"d">> \o OR, <<">">>, <<"1">>),
      <<"a", ">", "=", "2">>, <<"A", "<", "=", ">", "1">>, <<"d", "!", ">", "x">> }

RuleTexts == SingleTexts \cup ChainTexts \cup OddTexts

\* the rules handed to combine_rules
CombineTexts ==
    { Fragment(<<"a">>, <<">">>, <<"1">>),
      Fragment(<<"A">>, <<"<">>, <<"2">>),
      Fragment(<<"d">>, <<"=", "=">>, <<"x">>),
      Fragment(<<"a">>, <<">", ">">>, <<"1">>),
      SP,
      Fragment(<<"a">>, <<">">>, <<"1">>) \o SP \o AND \o SP
          \o Fragment(<<"d">>, <<"=", "=">>, <<"x">>) }

RuleLists == UNION { [1..n -> CombineTexts] : n \in 0..MaxRules }

CombineOperators == { "AND", "OR", "XOR" }

\* the records: each key absent or bound to one of a few values
Absent == [t |-> "absent", i |-> 0, s |-> <<>>]

Bindings ==
    [ {<<"a">>, <<"A">>, <<"d">>} ->
        {Absent, IntValue(1), IntValue(2), StrValue(<<"x">>)} ]

Records ==
    { [k \in {key \in DOMAIN b : b[key] # Absent} |-> b[k]] : b \in Bindings }

(***************************************************************************)
(* The program: one call of create_rule or of combine_rules, run token by  *)
(* token, then evaluate_rule on the tree it returned.                      *)
(***************************************************************************)
VARIABLES
    call,                \* "create_rule" or "combine_rules": the entry point
    rules,               \* the rule texts (one for create_rule)
    operator,            \* combine_rules' operator
    data,                \* the record evaluate_rule is called with
    pc,                  \* where the run is
    k,                   \* the rule being compiled
    tokens,              \* create_rule's tokens
    i,                   \* the next token
    stack,               \* create_rule's stack
    current_comparison,  \* create_rule's pending comparison
    ast_nodes,           \* the trees compiled so far
    compiled,            \* the outcome of the call
    result               \* the outcome of evaluate_rule

vars ==
    << call, rules, operator, data, pc, k, tokens, i, stack, current_comparison,
       ast_nodes, compiled, result >>

inputs == << call, rules, operator >>

loop == << tokens, i, stack, current_comparison >>

Pending == Return(None)

Init ==
    /\ \/ call = "create_rule" /\ rules \in { <<t>> : t \in RuleTexts } /\ operator = "AND"
       \/ call = "combine_rules" /\ rules \in RuleLists /\ operator \in CombineOperators
    /\ data = <<>>
    /\ pc = "call"
    /\ k = 1
    /\ tokens = <<>>
    /\ i = 1
    /\ stack = <<>>
    /\ current_comparison = <<>>
    /\ ast_nodes = <<>>
    /\ compiled = Pending
    /\ result = Pending

\* an exception leaves the call
Raised(exception) ==
    /\ pc' = "raised"
    /\ compiled' = exception

\* a direct call of create_rule
CallCreateRule ==
    /\ pc = "call" /\ call = "create_rule"
    /\ pc' = "create_rule"
    /\ UNCHANGED << inputs, data, k, loop, ast_nodes, compiled, result >>

\* CallCombineRules without the check of the operator
CallCombineRulesUnchecked ==
    /\ pc = "call" /\ call = "combine_rules"
    /\ pc' = IF rules = <<>> THEN "combine" ELSE "create_rule"
    /\ UNCHANGED << inputs, data, k, loop, ast_nodes, compiled, result >>

\* combine_rules checks its operator, then starts compiling the rules
CallCombineRules ==
    /\ pc = "call" /\ call = "combine_rules"
    /\ IF ~ (operator \in {"AND", "OR"})
       THEN Raised(Raise("UnsupportedCombinator", <<>>))
       ELSE /\ pc' = IF rules = <<>> THEN "combine" ELSE "create_rule"
            /\ UNCHANGED compiled
    /\ UNCHANGED << inputs, data, k, loop, ast_nodes, result >>

\* create_rule strips and tokenizes rule k
EnterCreateRule ==
    /\ pc = "create_rule"
    /\ LET rule_string == Strip(rules[k])
       IN  IF rule_string = <<>>
           THEN Raised(Raise("EmptyRule", <<>>)) /\ UNCHANGED loop
           ELSE /\ tokens' = Tokenize(rule_string)
                /\ i' = 1
                /\ stack' = <<>>
                /\ current_comparison' = <<>>
                /\ pc' = "loop"
                /\ UNCHANGED compiled
    /\ UNCHANGED << inputs, data, k, ast_nodes, result >>

\* one iteration of the loop, on a token the guard selects
Iterate(token) ==
    LET st == TokenStep(LoopState(stack, current_comparison, NotRaised), token)
    IN  /\ stack' = st.stack
        /\ current_comparison' = st.current_comparison
        /\ IF st.raised.ok
           THEN i' = i + 1 /\ UNCHANGED << pc, compiled >>
           ELSE Raised(st.raised) /\ UNCHANGED i
        /\ UNCHANGED << inputs, data, k, tokens, ast_nodes, result >>

LogicalToken ==
    /\ pc = "loop" /\ i <= Len(tokens) /\ tokens[i] \in {AND, OR}
    /\ Iterate(tokens[i])

ComparisonToken ==
    /\ pc = "loop" /\ i <= Len(tokens) /\ ~ (tokens[i] \in {AND, OR})
    /\ Iterate(tokens[i])

\* the end of the loop: create_rule returns or raises
LeaveCreateRule ==
    /\ pc = "loop" /\ i > Len(tokens)
    /\ LET outcome == FinalStack(stack)
       IN  IF ~ outcome.ok THEN Raised(outcome) /\ UNCHANGED << k, ast_nodes >>
           ELSE IF call = "create_rule"
           THEN /\ compiled' = outcome
                /\ pc' = "returned"
                /\ UNCHANGED << k, ast_nodes >>
           ELSE /\ ast_nodes' = Append(ast_nodes, outcome.value)
                /\ IF k < Len(rules)
                   THEN k' = k + 1 /\ pc' = "create_rule"
                   ELSE pc' = "combine" /\ UNCHANGED k
                /\ UNCHANGED compiled
    /\ UNCHANGED << inputs, data, loop, result >>

\* combine_rules folds the compiled trees
Combine ==
    /\ pc = "combine"
    /\ LET outcome == CombineNodes(ast_nodes, operator)
       IN  IF outcome.ok THEN compiled' = outcome /\ pc' = "returned"
           ELSE Raised(outcome)
    /\ UNCHANGED << inputs, data, k, loop, ast_nodes, result >>

\* the caller evaluates the tree against a record
Evaluate ==
    /\ pc = "returned"
    /\ \E record \in Records :
           /\ data' = record
           /\ result' = evaluate_rule(compiled.value, record)
    /\ pc' = "done"
    /\ UNCHANGED << inputs, k, loop, ast_nodes, compiled >>

Next ==
    \/ CallCreateRule
    \/ CallCombineRules
    \/ EnterCreateRule
    \/ LogicalToken
    \/ ComparisonToken
    \/ LeaveCreateRule
    \/ Combine
    \/ Evaluate

Spec == Init /\ [][Next]_vars

TypeOK ==
    /\ pc \in {"call", "create_rule", "loop", "combine", "returned", "raised", "done"}
    /\ k \in 1..(MaxRules + 1)

(***************************************************************************)
(* Vocabulary of the properties.                                           *)
(***************************************************************************)
Ended == pc \in {"raised", "returned", "done"}

SixOps == { ComparisonOps[n] : n \in 1..Len(ComparisonOps) }

\* well-formed comparisons: a one-word attribute, one of the six operators,
\* a one-word literal of ASCII letters or decimal digits
Comparisons ==
    [ attr : {<<"a">>, <<"A">>, <<"d">>}, op : SixOps,
      lit : {<<"1">>, <<"2">>, <<"1", "3">>, <<"x">>, <<"X">>} ]

TextOf(c) == Fragment(c.attr, c.op, c.lit)

AllDecimal(text) == text # <<>> /\ \A n \in 1..Len(text) : text[n] \in {"1", "2", "3"}

LiteralType(text) == IF AllDecimal(text) THEN "int" ELSE "str"

\* the record holds the attribute, under its lower-cased name, with a value of
\* the literal's type
Conforms(attr, lit, record) ==
    /\ Lower(attr) \in DOMAIN record
    /\ record[Lower(attr)].t = LiteralType(lit)

\* the leaf a well-formed comparison stands for
LeafOf(c) == Leaf(Fragment(Lower(c.attr), c.op, c.lit))

ChainLinks == { c \in Comparisons : TextOf(c) \in ChainComparisons }

\* the flat chains c1 L1 c2 ... cn with their left-associated trees
RECURSIVE LogicalChains(_)
LogicalChains(n) ==
    IF n = 1 THEN { [text |-> TextOf(c), tree |-> LeafOf(c)] : c \in ChainLinks }
    ELSE { [text |-> p.text \o SP \o L \o SP \o TextOf(c),
            tree |-> Node(LogicalTag(L), p.tree, LeafOf(c))] :
           p \in LogicalChains(n - 1), L \in {AND, OR}, c \in ChainLinks }

FlatChains == UNION { LogicalChains(n) : n \in 2..MaxChain }

HasLogicalWord(text) == \E n \in 1..Len(text) : LogicalMatchLen(text, n) > 0

\* s < t, lexicographic on code points
LexLess(s, t) ==
    \E n \in 1..(Len(t)) :
        /\ n <= Len(s) + 1
        /\ \A m \in 1..(n - 1) : s[m] = t[m]
        /\ (n = Len(s) + 1 \/ Ord[s[n]] < Ord[t[n]])

\* the reference comparison of a record value with a literal of its type
Reference(op, x, lit) ==
    LET less(u, v) == IF LiteralType(lit) = "int" THEN u.i < v.i ELSE LexLess(u.s, v.s)
        y == IF LiteralType(lit) = "int" THEN IntValue(ToInt(lit)) ELSE StrValue(lit)
    IN  CASE op = <<"=", "=">> -> x = y
          [] op = <<"!", "=">> -> x # y
          [] op = <<">">> -> less(y, x)
          [] op = <<"<">> -> less(x, y)
          [] op = <<">", "=">> -> less(y, x) \/ x = y
          [] op = <<"<", "=">> -> less(x, y) \/ x = y

(***************************************************************************)
(* C1.  A flat chain c1 L1 c2 ... cn (n >= 2) of well-formed comparisons   *)
(* joined by AND/OR compiles, and to the left-associated tree              *)
(* (((c1 L1 c2) L2 c3) ... cn).                                            *)
(***************************************************************************)
C1_FlatChainCompilesLeftAssociated ==
    \A e \in FlatChains :
        (call = "create_rule" /\ rules = << e.text >> /\ Ended)
            => (compiled.ok /\ compiled.value = e.tree)

(***************************************************************************)
(* C2.  Every tree create_rule returns is evaluable: against a record that *)
(* holds the attribute the comparison names with a value of the literal's  *)
(* type, evaluate_rule returns a boolean and raises nothing.  (The tree is *)
(* the leaf of the one comparison fragment; its attribute and literal are  *)
(* the parts create_rule split it into.  Stated for ASCII literals.)       *)
(***************************************************************************)
C2_ReturnedTreeEvaluable ==
    (call = "create_rule" /\ pc = "done")
        => LET parts == SplitComparison(Strip(rules[1]))
           IN  (/\ Len(parts) = 3
                /\ ~ (SUP2 \in {parts[3][n] : n \in 1..Len(parts[3])})
                /\ Conforms(Strip(parts[1]), Strip(parts[3]), data))
                   => (result.ok /\ result.value \in BOOLEAN)

(***************************************************************************)
(* C3.  For well-formed comparisons r1, r2, an operator op of AND/OR and a *)
(* record holding both attributes (with values of the literals' types),    *)
(* evaluating combine_rules([r1, r2], op) and evaluating                   *)
(* create_rule(r1 op r2) both succeed and agree.                           *)
(***************************************************************************)
C3_CombineAgreesWithInfix ==
    \A c1, c2 \in Comparisons :
        (/\ call = "combine_rules" /\ pc = "done"
         /\ rules = << TextOf(c1), TextOf(c2) >>
         /\ Conforms(c1.attr, c1.lit, data) /\ Conforms(c2.attr, c2.lit, data))
            => LET infix == create_rule(TextOf(c1) \o SP \o
                                (IF operator = "AND" THEN AND ELSE OR) \o SP \o TextOf(c2))
               IN  /\ result.ok
                   /\ infix.ok
                   /\ evaluate_rule(infix.value, data).ok
                   /\ evaluate_rule(infix.value, data).value = result.value

(***************************************************************************)
(* C4 as claimed.  Two well-formed comparisons with no AND/OR between them *)
(* fail in create_rule with the end-of-input failure "more than one        *)
(* sub-tree on the stack" (UnreducedStack).                                *)
(***************************************************************************)
UnjoinedPairs == { TextOf(c1) \o SP \o TextOf(c2) : c1, c2 \in ChainLinks }

C4_UnjoinedFailsUnreduced ==
    (call = "create_rule" /\ rules[1] \in UnjoinedPairs /\ Ended)
        => (pc = "raised" /\ compiled.err = "UnreducedStack")

(***************************************************************************)
(* C4 as amended.  Two well-formed comparisons with no AND/OR between them *)
(* fail in create_rule with the malformed-comparison failure, raised on    *)
(* the whole text (it is one token with two comparison operators), before  *)
(* anything is pushed on the stack.                                        *)
(***************************************************************************)
C4_UnjoinedFailsMalformed ==
    (call = "create_rule" /\ rules[1] \in UnjoinedPairs /\ Ended)
        => /\ pc = "raised"
           /\ compiled.err = "MalformedComparison"
           /\ compiled.detail = rules[1]
           /\ stack = <<>>

C4_Witness ==
    /\ call = "create_rule" /\ rules[1] \in UnjoinedPairs
    /\ pc = "raised" /\ compiled.err = "MalformedComparison"

(***************************************************************************)
(* C5.  combine_rules returns, for one rule, the tree create_rule returns  *)
(* for it, and for n >= 2 rules the left fold                              *)
(* op(op(...op(t1, t2)..., t(n-1)), tn): n-1 logical nodes, all tagged op, *)
(* the leaves in sequence order.                                           *)
(***************************************************************************)
RECURSIVE LeftFold(_, _, _)
LeftFold(ts, n, op) ==
    IF n = 1 THEN ts[1] ELSE Node(op, LeftFold(ts, n - 1, op), ts[n])

RECURSIVE LogicalTags(_)
LogicalTags(tree) ==
    IF tree.operator = "COMPARE" THEN <<>>
    ELSE LogicalTags(tree.left) \o << tree.operator >> \o LogicalTags(tree.right)

RECURSIVE Leaves(_)
Leaves(tree) ==
    IF tree.operator = "COMPARE" THEN << tree >>
    ELSE Leaves(tree.left) \o Leaves(tree.right)

C5_CombineLeftFold ==
    (call = "combine_rules" /\ pc \in {"returned", "done"})
        => LET n == Len(rules)
               ts == [j \in 1..n |-> create_rule(rules[j]).value]
           IN  /\ n >= 1
               /\ \A j \in 1..n : create_rule(rules[j]).ok
               /\ compiled.ok
               /\ compiled.value = LeftFold(ts, n, operator)
               /\ LogicalTags(compiled.value) = [j \in 1..(n - 1) |-> operator]
               /\ Leaves(compiled.value) = ts

C5_Witness ==
    /\ call = "combine_rules" /\ pc = "returned" /\ Len(rules) >= 3
    /\ operator = "OR" /\ rules[1] # rules[2] /\ rules[2] # rules[3]

(***************************************************************************)
(* C6.  evaluate_rule short-circuits: an AND whose left child is false is  *)
(* false, an OR whose left child is true is true, and in both cases no     *)
(* leaf of the right child is evaluated (so a right child that would raise *)
(* raises nothing); otherwise the outcome, result or error, is the right   *)
(* child's.                                                                *)
(***************************************************************************)
C6_ShortCircuit ==
    (pc = "done" /\ compiled.value.operator \in {"AND", "OR"})
        => LET l == evaluate_rule(compiled.value.left, data)
               r == evaluate_rule(compiled.value.right, data)
               stop == (compiled.value.operator = "OR")
           IN  l.ok =>
                   IF l.value = stop
                   THEN /\ result.ok
                        /\ result.value = stop
                        /\ result.visited = l.visited
                   ELSE /\ result.ok = r.ok
                        /\ result.err = r.err
                        /\ result.value = r.value
                        /\ result.visited = l.visited \o r.visited

C6_Witness ==
    /\ pc = "done" /\ compiled.value.operator = "AND"
    /\ evaluate_rule(compiled.value.left, data).ok
    /\ evaluate_rule(compiled.value.left, data).value = FALSE
    /\ ~ evaluate_rule(compiled.value.right, data).ok
    /\ result.ok /\ result.value = FALSE

(***************************************************************************)
(* C7.  Attribute lookup is case-insensitive on both sides: a record whose *)
(* key equals the rule's attribute up to letter case is never reported as  *)
(* missing the attribute.                                                  *)
(***************************************************************************)
C7_LookupIgnoresCase ==
    \A c \in Comparisons :
        (/\ call = "create_rule" /\ pc = "done" /\ rules = << TextOf(c) >>
         /\ \E key \in DOMAIN data : Lower(key) = Lower(c.attr))
            => result.err # "MissingAttribute"

(***************************************************************************)
(* C8.  A comparison leaf attr op lit evaluates to op applied to the       *)
(* record's value and L, L being the integer value of lit when lit is made *)
(* of decimal digits only and the string lit otherwise; for a record value *)
(* of L's type that is the reference comparison (integer order, string     *)
(* equality and lexicographic order).                                      *)
(***************************************************************************)
LeafComparisons ==
    [ attr : {<<"a">>, <<"A">>, <<"d">>}, op : SixOps,
      lit : {<<"1">>, <<"2">>, <<"1", "3">>, <<"x">>, <<"X">>, << SUP2 >>} ]

C8_LeafComparesAsReference ==
    \A c \in LeafComparisons :
        (/\ call = "create_rule" /\ pc = "done" /\ rules = << TextOf(c) >>
         /\ Lower(c.attr) \in DOMAIN data
         /\ \/ data[Lower(c.attr)].t = LiteralType(c.lit)
            \/ c.op \in {<<"=", "=">>, <<"!", "=">>})
            => /\ result.ok
               /\ result.value = Reference(c.op, data[Lower(c.attr)], c.lit)

(***************************************************************************)
(* C9.  combine_rules fails in a fixed order: an operator other than AND   *)
(* and OR fails with the unsupported-combinator error before any rule is   *)
(* compiled, whatever the rules; otherwise, when some rule does not        *)
(* compile, the call fails with exactly the error create_rule raises for   *)
(* the first such rule, and returns no tree.                               *)
(***************************************************************************)
Fails(rule) == ~ create_rule(rule).ok

FirstFailing(rs) ==
    CHOOSE j \in 1..Len(rs) : Fails(rs[j]) /\ \A q \in 1..(j - 1) : ~ Fails(rs[q])

C9_FailureOrder ==
    call = "combine_rules" =>
        /\ ~ (operator \in {"AND", "OR"}) =>
               /\ pc \in {"call", "raised"}
               /\ pc = "raised" => compiled = Raise("UnsupportedCombinator", <<>>)
               /\ tokens = <<>> /\ ast_nodes = <<>>
        /\ (operator \in {"AND", "OR"} /\ \E j \in 1..Len(rules) : Fails(rules[j])) =>
               /\ k <= FirstFailing(rules)
               /\ pc \in {"call", "create_rule", "loop", "raised"}
               /\ pc = "raised" => compiled = create_rule(rules[FirstFailing(rules)])

C9_Witness ==
    /\ call = "combine_rules" /\ operator \in {"AND", "OR"} /\ pc = "raised"
    /\ Len(rules) >= 3
    /\ ~ Fails(rules[1]) /\ Fails(rules[2]) /\ Fails(rules[3])
    /\ create_rule(rules[2]) # create_rule(rules[3])
    /\ compiled = create_rule(rules[2])

(***************************************************************************)
(* C10.  At every point of create_rule the stack holds at most one         *)
(* sub-tree; so create_rule builds no logical node: what it returns is a   *)
(* comparison leaf, a rule text with AND or OR as a whole word fails, and  *)
(* the end-of-input failures for an empty stack and for a stack of more    *)
(* than one sub-tree never happen.  (No two adjacent tokens are both       *)
(* comparison fragments.)                                                  *)
(***************************************************************************)
C10_StackAtMostOne ==
    /\ Len(stack) <= 1
    /\ \A j \in 1..(Len(tokens) - 1) :
           tokens[j] \in {AND, OR} \/ tokens[j + 1] \in {AND, OR}
    /\ \A j \in 1..Len(stack) : stack[j].operator = "COMPARE"
    /\ \A j \in 1..Len(ast_nodes) : ast_nodes[j].operator = "COMPARE"
    /\ (call = "create_rule" /\ pc \in {"returned", "done"}) =>
           /\ compiled.value.operator = "COMPARE"
           /\ ~ HasLogicalWord(rules[1])
    /\ pc = "raised" => ~ (compiled.err \in {"NoExpression", "UnreducedStack"})

C10_Witness ==
    /\ call = "create_rule" /\ pc = "raised"
    /\ compiled.err = "InsufficientOperands"
    /\ Len(tokens) >= 3 /\ i = 2 /\ Len(stack) = 1

====
